---- MODULE Spec2Model ----
(***************************************************************************)
(* Model of utils/utils.py of the MAPS repository: the ranking metrics     *)
(* (dcg_score, ndcg_score, hit_score, mrr_score), pad_and_stack,           *)
(* format_time and the seeding helpers with their two module globals.      *)
(*                                                                         *)
(* Conventions.  Python indices are 0-based, TLA+ sequences 1-based: the   *)
(* element at Python position p is at position p+1 here, so the discount   *)
(* log2(p + 2) of Python position p is the discount of position p+1, and   *)
(* the reciprocal rank 1/(p + 1) is 1/(position).                          *)
(* Floating point values are modelled exactly where the code's arithmetic  *)
(* is rational (a fraction num/den), and in fixed point (millionths) for   *)
(* the irrational 1/log2(n).  A division keeps numpy's IEEE behaviour:     *)
(* x/0 is nan or inf, never an exception.                                  *)
(***************************************************************************)
EXTENDS Integers, Sequences, FiniteSets, TLC

VARIABLES
    y_true,            \* metrics: the ground-truth vector passed in
    y_score,           \* metrics: the score vector passed in
    k,                 \* metrics: the cutoff passed in
    f,                 \* metrics: the rescaling applied to the scores (<<>>: none)
    sort_kind,         \* the tie order of this build's np.argsort
    arrays,            \* pad_and_stack: the caller's list (mutated in place)
    pad_value,         \* pad_and_stack: the pad value passed in
    seconds,           \* format_time: the duration passed in, in milliseconds
    GLOBAL_SEED,       \* module global, line 54
    GLOBAL_WORKER_ID,  \* module global, line 65
    rng,               \* seeds of the random / numpy / torch / cuda generators
    backend,           \* cudnn flags, deterministic-algorithms flag, os.environ
    arg,               \* the seed or worker id passed to the last seeding call
    fn,                \* the function whose call returned last ("none": none yet)
    ret                \* what that call returned (or raised)

vars == <<y_true, y_score, k, f, sort_kind, arrays, pad_value, seconds,
          GLOBAL_SEED, GLOBAL_WORKER_ID, rng, backend, arg, fn, ret>>

mvars == <<y_true, y_score, sort_kind>>
pvars == <<arrays, pad_value>>
svars == <<GLOBAL_SEED, GLOBAL_WORKER_ID, rng, backend, arg>>

(***************************************************************************)
(* Bounds of the model.                                                    *)
(***************************************************************************)
MaxLen == 3          \* longest ground-truth / score vector
MaxScore == 2        \* scores are 0..MaxScore

\* Relevance grades: 0 irrelevant, 1 relevant (the label hit_score looks
\* for), 2 a graded relevance (gain 2^2 - 1).
Labels == {0, 1, 2}
Scores == 0..MaxScore
Cutoffs == -1..(MaxLen + 1)
SortKinds == {"stable", "antistable"}

(***************************************************************************)
(* Return values.                                                          *)
(***************************************************************************)
None == [kind |-> "none"]
IntVal(v) == [kind |-> "int", val |-> v]
\* a float known exactly as the fraction num/den, den > 0
Frac(n, d) == [kind |-> "float", num |-> n, den |-> d]
NaN == [kind |-> "nan"]
Inf == [kind |-> "inf"]
Raise(e) == [kind |-> "raise", exc |-> e]

(***************************************************************************)
(* numpy primitives.                                                       *)
(***************************************************************************)
Min(a, b) == IF a <= b THEN a ELSE b
Max(a, b) == IF a >= b THEN a ELSE b

RECURSIVE SumSeq(_)
SumSeq(s) == IF s = <<>> THEN 0 ELSE Head(s) + SumSeq(Tail(s))

RECURSIVE Fact(_)
Fact(n) == IF n <= 1 THEN 1 ELSE n * Fact(n - 1)

RECURSIVE Pow2(_)
Pow2(n) == IF n <= 0 THEN 1 ELSE 2 * Pow2(n - 1)

\* Mutant of Before: the scores are truncated to a coarser grid before they
\* are compared.
BeforeTruncated(s, kind, i, j) ==
    \/ (s[i] \div 2) < (s[j] \div 2)
    \/ (s[i] \div 2) = (s[j] \div 2) /\ (IF kind = "stable" THEN i < j ELSE i > j)

\* Whether index i sorts before index j in np.argsort(s).  The default sort
\* (kind=None, quicksort) is not stable: the order of equal scores is the
\* build's, fixed for a build and decided by comparisons only.
Before(s, kind, i, j) ==
    \/ s[i] < s[j]
    \/ s[i] = s[j] /\ (IF kind = "stable" THEN i < j ELSE i > j)

\* The indices in todo in ascending order of score: the first of them, then
\* the rest.
RECURSIVE SortedFrom(_, _, _)
SortedFrom(s, kind, todo) ==
    IF todo = {} THEN <<>>
    ELSE LET first == CHOOSE i \in todo :
                          \A j \in todo \ {i} : Before(s, kind, i, j)
         IN  <<first>> \o SortedFrom(s, kind, todo \ {first})

\* np.argsort(s): the indices of s in ascending order of score.
ArgSort(s, kind) == SortedFrom(s, kind, 1..Len(s))

\* Mutant of Reversed: the [::-1] is missing, the order stays ascending.
ReversedMissing(a) == a

\* a[::-1]
Reversed(a) == [i \in 1..Len(a) |-> a[Len(a) + 1 - i]]

\* a[:n] with Python's slice semantics (a negative n counts from the end).
SliceTo(a, n) ==
    LET stop == IF n < 0 THEN Max(Len(a) + n, 0) ELSE Min(n, Len(a))
    IN  SubSeq(a, 1, stop)

\* np.take(a, idx)
Take(a, idx) == [i \in 1..Len(idx) |-> a[idx[i]]]

\* 1/log2(n) in millionths, n = 2..11: the reciprocal of np.log2(arange + 2).
InvLog2 == <<1000000, 630930, 500000, 430677, 386853,
             356207, 333333, 315465, 301030, 289065>>

\* Mutant of NpTrueDivide: the division of Python floats, which raises.
PyTrueDivide(an, ad, bn, bd) ==
    IF bn = 0
    THEN Raise("ZeroDivisionError")
    ELSE Frac(an * bd, ad * bn)

\* a / b for numpy floats a = an/ad, b = bn/bd (ad, bd > 0, an, bn >= 0):
\* division by zero gives nan or inf with a RuntimeWarning, not an exception.
NpTrueDivide(an, ad, bn, bd) ==
    IF bn = 0
    THEN (IF an = 0 THEN NaN ELSE Inf)
    ELSE Frac(an * bd, ad * bn)

(***************************************************************************)
(* Ranking metrics.                                                        *)
(***************************************************************************)
\* dcg_score(y_true, y_score, k), in millionths.
DcgScore(yt, ys, kk, kind) ==
    LET k1 == Min(Len(yt), kk)
        order == Reversed(ArgSort(ys, kind))
        taken == Take(yt, SliceTo(order, k1))
        gains == [i \in 1..Len(taken) |-> Pow2(taken[i]) - 1]
    IN  SumSeq([i \in 1..Len(taken) |-> gains[i] * InvLog2[i]])

\* ndcg_score(y_true, y_score, k)
NdcgScore(yt, ys, kk, kind) ==
    LET best == DcgScore(yt, yt, kk, kind)
        actual == DcgScore(yt, ys, kk, kind)
    IN  NpTrueDivide(actual, 1, best, 1)

\* Mutant of HitScore: every positive label counts as relevant.
HitScoreAnyPositive(yt, ys, kk, kind) ==
    LET ground_truth == {i \in 1..Len(yt) : yt[i] > 0}
        argsort == SliceTo(Reversed(ArgSort(ys, kind)), kk)
    IN  IF \E p \in 1..Len(argsort) : argsort[p] \in ground_truth
        THEN 1 ELSE 0

\* hit_score(y_true, y_score, k)
HitScore(yt, ys, kk, kind) ==
    LET ground_truth == {i \in 1..Len(yt) : yt[i] = 1}
        argsort == SliceTo(Reversed(ArgSort(ys, kind)), kk)
    IN  IF \E p \in 1..Len(argsort) : argsort[p] \in ground_truth
        THEN 1 ELSE 0

\* Mutant of MrrScore: the ranks are counted from 2 (arange + 2, as in the
\* discount of dcg_score).
MrrScoreRankFromTwo(yt, ys, kind) ==
    LET order == Reversed(ArgSort(ys, kind))
        taken == Take(yt, order)
        L == Fact(Len(taken) + 1)
        rr_score == [i \in 1..Len(taken) |-> taken[i] * (L \div (i + 1))]
    IN  NpTrueDivide(SumSeq(rr_score), L, SumSeq(taken), 1)

\* mrr_score(y_true, y_score): sum(y_true[order] / (arange + 1)) / sum(y_true),
\* the first sum over the common denominator n!.
MrrScore(yt, ys, kind) ==
    LET order == Reversed(ArgSort(ys, kind))
        taken == Take(yt, order)
        L == Fact(Len(taken))
        rr_score == [i \in 1..Len(taken) |-> taken[i] * (L \div i)]
    IN  NpTrueDivide(SumSeq(rr_score), L, SumSeq(taken), 1)

(***************************************************************************)
(* Inputs of the metrics and the calls.                                    *)
(***************************************************************************)
Vectors(S) == UNION {[1..n -> S] : n \in 0..MaxLen}

\* Strictly increasing maps of the scores (element-wise rescalings): a
\* shift, a scaling and a non-linear one.
RescaleMaps ==
    {[x \in Scores |-> x + 1], [x \in Scores |-> 2 * x], [x \in Scores |-> x * x]}

Rescaled(g, ys) == [i \in 1..Len(ys) |-> g[ys[i]]]

NoArrays == <<>>

IdleMetrics ==
    /\ y_true = <<>> /\ y_score = <<>> /\ k = 0 /\ f = <<>>
    /\ sort_kind = "stable"

IdlePad == arrays = NoArrays /\ pad_value = 0

IdleTime == seconds = 0

\* The module as imported: lines 54 and 65, generators and backends as the
\* libraries start them.  An optional value is a set of at most one element
\* ({}: None, not seeded, not set).
IdleSeed ==
    /\ GLOBAL_SEED = 1
    /\ GLOBAL_WORKER_ID = {}
    /\ rng = [python |-> {}, numpy |-> {}, torch |-> {}, cuda |-> {},
              cuda_all |-> {}]
    /\ backend = [cudnn_benchmark |-> FALSE, cudnn_deterministic |-> FALSE,
                  deterministic_algorithms |-> FALSE,
                  PYTHONHASHSEED |-> {}, CUBLAS_WORKSPACE_CONFIG |-> {}]
    /\ arg = {}

InitMetrics ==
    /\ y_true \in Vectors(Labels)
    /\ y_score \in [1..Len(y_true) -> Scores]
    /\ sort_kind \in SortKinds
    /\ k = 0 /\ f = <<>>
    /\ fn = "none" /\ ret = None
    /\ IdlePad /\ IdleTime /\ IdleSeed

Returns(name, value) ==
    /\ fn' = name
    /\ ret' = value
    /\ UNCHANGED <<mvars, pvars, seconds, svars>>

CallHitScore ==
    /\ fn = "none"
    /\ \E kk \in Cutoffs :
        /\ k' = kk /\ f' = <<>>
        /\ Returns("hit_score", IntVal(HitScore(y_true, y_score, kk, sort_kind)))

CallMrrScore ==
    /\ fn = "none"
    /\ k' = 0 /\ f' = <<>>
    /\ Returns("mrr_score", MrrScore(y_true, y_score, sort_kind))

CallDcgScore ==
    /\ fn = "none"
    /\ \E kk \in Cutoffs :
        /\ k' = kk /\ f' = <<>>
        /\ Returns("dcg_score", IntVal(DcgScore(y_true, y_score, kk, sort_kind)))

\* dcg_score on the element-wise rescaled scores g(y_score).
CallDcgScoreRescaled ==
    /\ fn = "none"
    /\ \E kk \in Cutoffs, g \in RescaleMaps :
        /\ k' = kk /\ f' = g
        /\ Returns("dcg_score_rescaled",
                   IntVal(DcgScore(y_true, Rescaled(g, y_score), kk, sort_kind)))

CallNdcgScore ==
    /\ fn = "none"
    /\ \E kk \in Cutoffs :
        /\ k' = kk /\ f' = <<>>
        /\ Returns("ndcg_score", NdcgScore(y_true, y_score, kk, sort_kind))

NextHit == CallHitScore
SpecHit == InitMetrics /\ [][NextHit]_vars

NextMrr == CallMrrScore
SpecMrr == InitMetrics /\ [][NextMrr]_vars

NextDcg == CallDcgScore \/ CallNdcgScore
SpecDcg == InitMetrics /\ [][NextDcg]_vars

NextRescale == CallDcgScoreRescaled
SpecRescale == InitMetrics /\ [][NextRescale]_vars

NextZero == CallNdcgScore \/ CallMrrScore
SpecZero == InitMetrics /\ [][NextZero]_vars

(***************************************************************************)
(* pad_and_stack.  An ndarray is an object: id is its identity, base the   *)
(* identity of the array it is a view of (0: it owns its data), shape its  *)
(* shape, data its entries (a vector for ndim 1, a sequence of rows for    *)
(* ndim 2).                                                                *)
(***************************************************************************)
MaxArrays == 2       \* longest list passed to pad_and_stack
MaxRows == 2         \* most rows of a 2-D input
MaxCols == 3         \* most columns of an input

PadValues == {0, 1}

NdArray(i, b, sh, d) ==
    [kind |-> "ndarray", id |-> i, base |-> b, ndim |-> Len(sh),
     shape |-> sh, data |-> d]

\* array.shape[-1]
LastDim(a) == a.shape[Len(a.shape)]

\* array[np.newaxis, :] of a 1-D array: a one-row 2-D view of it.
NewAxis(a, newid) == NdArray(newid, a.id, <<1, a.shape[1]>>, <<a.data>>)

\* np.full((r, c), v)
Full(r, c, v, newid) ==
    NdArray(newid, 0, <<r, c>>, [i \in 1..r |-> [j \in 1..c |-> v]])

\* np.hstack([a, b]) of two 2-D arrays: concatenation along axis 1, which
\* needs equal row counts.
HStack(a, b, newid) ==
    IF a.shape[1] # b.shape[1]
    THEN Raise("ValueError")
    ELSE NdArray(newid, 0, <<a.shape[1], a.shape[2] + b.shape[2]>>,
                 [i \in 1..a.shape[1] |-> a.data[i] \o b.data[i]])

RECURSIVE ConcatRows(_)
ConcatRows(list) ==
    IF list = <<>> THEN <<>> ELSE Head(list).data \o ConcatRows(Tail(list))

\* Mutant of VStack: np.stack-like, every array must have the same shape.
VStackSameShape(list, newid) ==
    IF \E i, j \in 1..Len(list) : list[i].shape # list[j].shape
    THEN Raise("ValueError")
    ELSE NdArray(newid, 0,
                 <<SumSeq([i \in 1..Len(list) |-> list[i].shape[1]]),
                   list[1].shape[2]>>,
                 ConcatRows(list))

\* np.vstack(list) of 2-D arrays: concatenation along axis 0, which needs
\* equal column counts.
VStack(list, newid) ==
    IF \E i, j \in 1..Len(list) : list[i].shape[2] # list[j].shape[2]
    THEN Raise("ValueError")
    ELSE NdArray(newid, 0,
                 <<SumSeq([i \in 1..Len(list) |-> list[i].shape[1]]),
                   list[1].shape[2]>>,
                 ConcatRows(list))

RECURSIVE MaxOf(_)
MaxOf(s) == IF Len(s) = 1 THEN s[1] ELSE Max(Head(s), MaxOf(Tail(s)))

\* Lines 17-19: every 1-D element of the list is replaced by its one-row view.
Promoted(list) ==
    [i \in 1..Len(list) |->
        IF list[i].ndim = 1 THEN NewAxis(list[i], Len(list) + i) ELSE list[i]]

\* Mutant of PaddedArrays: the padding is stacked to the left of the array.
PaddedArraysLeft(list, pad) ==
    LET max_cols == MaxOf([i \in 1..Len(list) |-> LastDim(list[i])])
        n == Len(list)
    IN  [i \in 1..n |->
            LET array == list[i]
                current_cols == LastDim(array)
            IN  IF current_cols < max_cols
                THEN HStack(Full(array.shape[1], max_cols - current_cols, pad,
                                 2 * n + i),
                            array,
                            3 * n + i)
                ELSE array]

\* Lines 23-29: each array right-padded to max_cols; an array that is wide
\* enough is appended as it is.
PaddedArrays(list, pad) ==
    LET max_cols == MaxOf([i \in 1..Len(list) |-> LastDim(list[i])])
        n == Len(list)
    IN  [i \in 1..n |->
            LET array == list[i]
                current_cols == LastDim(array)
            IN  IF current_cols < max_cols
                THEN HStack(array,
                            Full(array.shape[1], max_cols - current_cols, pad,
                                 2 * n + i),
                            3 * n + i)
                ELSE array]

\* Mutant of ListAfterCall: the padded arrays are written back into the list.
ListPaddedInPlace(list, pad) == PaddedArrays(Promoted(list), pad)

\* The caller's list when pad_and_stack returns: lines 24-29 rebind the local
\* name array only, the list keeps the promoted elements.
ListAfterCall(list, pad) == Promoted(list)

\* What pad_and_stack(arrays, pad_value) returns or raises.
PadAndStack(list, pad) ==
    LET padded_arrays == PaddedArrays(Promoted(list), pad)
        n == Len(list)
    IN  IF \E i \in 1..n : padded_arrays[i].kind = "raise"
        THEN Raise("ValueError")
        ELSE VStack(padded_arrays, 4 * n + 1)

\* The inputs: the entries are numbered row by row through the list, which
\* tells every entry from every other (the code never reads an entry).
Shapes ==
    {<<c>> : c \in 0..MaxCols}
        \cup {<<r, c>> : r \in 0..MaxRows, c \in 0..MaxCols}

Size(sh) == IF Len(sh) = 1 THEN sh[1] ELSE sh[1] * sh[2]

RECURSIVE SizeBefore(_, _)
SizeBefore(shapes, i) ==
    IF i <= 1 THEN 0 ELSE Size(shapes[i - 1]) + SizeBefore(shapes, i - 1)

InputArrays(shapes) ==
    [i \in 1..Len(shapes) |->
        LET sh == shapes[i]
            first == SizeBefore(shapes, i)
        IN  IF Len(sh) = 1
            THEN NdArray(i, 0, sh, [j \in 1..sh[1] |-> first + j])
            ELSE NdArray(i, 0, sh,
                         [r \in 1..sh[1] |->
                             [j \in 1..sh[2] |-> first + (r - 1) * sh[2] + j]])]

InitPad ==
    /\ \E n \in 1..MaxArrays :
           \E shapes \in [1..n -> Shapes] : arrays = InputArrays(shapes)
    /\ pad_value \in PadValues
    /\ fn = "none" /\ ret = None
    /\ IdleMetrics /\ IdleTime /\ IdleSeed

CallPadAndStack ==
    /\ fn = "none"
    /\ arrays' = ListAfterCall(arrays, pad_value)
    /\ ret' = PadAndStack(arrays, pad_value)
    /\ fn' = "pad_and_stack"
    /\ UNCHANGED <<pad_value, mvars, k, f, seconds, svars>>

NextPad == CallPadAndStack
SpecPad == InitPad /\ [][NextPad]_vars

(***************************************************************************)
(* format_time.  The duration is held in milliseconds.  divmod on floats   *)
(* is exact (fmod), so the seconds left are the duration's float modulo    *)
(* 60; ':.2f' rounds that float to the nearest hundredth.  On a decimal    *)
(* tie (xx.xx5) the float is a little below or above the tie, or exactly   *)
(* on it, depending on its binary representation: both roundings occur.    *)
(***************************************************************************)
MaxDays == 1         \* the durations span 0..MaxDays whole days

SecondsPerDay == 86400
SecondsPerHour == 3600
SecondsPerMinute == 60

\* divmod(a, b) for a >= 0, b > 0
DivMod(a, b) == <<a \div b, a % b>>

\* The hundredths ':.2f' may render for ms milliseconds.
Round2(ms) ==
    IF ms % 10 < 5 THEN {ms \div 10}
    ELSE IF ms % 10 > 5 THEN {ms \div 10 + 1}
    ELSE {ms \div 10, ms \div 10 + 1}

\* f"{x:.2f}" of x = centis hundredths
Fixed2(centis) ==
    ToString(centis \div 100) \o "."
        \o (IF centis % 100 < 10 THEN "0" ELSE "") \o ToString(centis % 100)

Rendered(d, h, m, centis) ==
    [kind |-> "str",
     text |-> ToString(d) \o "d " \o ToString(h) \o "h " \o ToString(m) \o "m "
                  \o Fixed2(centis) \o "s",
     D |-> d, H |-> h, M |-> m, S |-> centis]

\* Mutant of FormatTime: the hours are taken from the whole duration, not
\* from what the days leave.
FormatTimeHoursOfTotal(ms, centisOf) ==
    LET d1 == DivMod(ms, SecondsPerDay * 1000)
        d2 == DivMod(ms, SecondsPerHour * 1000)
        d3 == DivMod(d2[2], SecondsPerMinute * 1000)
    IN  Rendered(d1[1], d2[1], d3[1], centisOf)

\* format_time(seconds): the text and the numbers it renders (S in
\* hundredths); centisOf is the rounding ':.2f' made of the seconds left.
FormatTime(ms, centisOf) ==
    LET d1 == DivMod(ms, SecondsPerDay * 1000)
        d2 == DivMod(d1[2], SecondsPerHour * 1000)
        d3 == DivMod(d2[2], SecondsPerMinute * 1000)
    IN  Rendered(d1[1], d2[1], d3[1], centisOf)

\* The seconds format_time is left with after the days, hours and minutes.
SecondsLeft(ms) == ms % (SecondsPerMinute * 1000)

\* Milliseconds within the minute that cover exact hundredths, values
\* between them, decimal ties and the top of the minute.
SecondParts == {0, 1, 4, 5, 6, 10, 1500, 59990, 59994, 59995, 59996, 59999}

Durations ==
    {((d * SecondsPerDay + h * SecondsPerHour + m * SecondsPerMinute) * 1000) + r :
        d \in 0..MaxDays, h \in {0, 1, 23}, m \in {0, 1, 59}, r \in SecondParts}

InitTime ==
    /\ seconds \in Durations
    /\ fn = "none" /\ ret = None
    /\ IdleMetrics /\ IdlePad /\ IdleSeed

CallFormatTime ==
    /\ fn = "none"
    /\ \E centis \in Round2(SecondsLeft(seconds)) :
           ret' = FormatTime(seconds, centis)
    /\ fn' = "format_time"
    /\ UNCHANGED <<seconds, mvars, k, f, pvars, svars>>

NextTime == CallFormatTime
SpecTime == InitTime /\ [][NextTime]_vars

(***************************************************************************)
(* Seeding: setup_seed, set_seed, worker_init_fn and the two globals.      *)
(***************************************************************************)
MaxSeed == 3         \* seeds passed to setup_seed / set_seed are 0..MaxSeed
MaxWorker == 3       \* worker ids are 0..MaxWorker

\* The five generator seedings of lines 42-46 and 58-62.
Seeded(seed) ==
    [python |-> {seed}, numpy |-> {seed}, torch |-> {seed}, cuda |-> {seed},
     cuda_all |-> {seed}]

SeedReturns(name, a) ==
    /\ fn' = name
    /\ arg' = {a}
    /\ ret' = None
    /\ UNCHANGED <<mvars, k, f, pvars, seconds>>

\* setup_seed(seed)
SetupSeed(seed) ==
    /\ rng' = Seeded(seed)
    /\ backend' = [cudnn_benchmark |-> FALSE, cudnn_deterministic |-> TRUE,
                   deterministic_algorithms |-> TRUE,
                   PYTHONHASHSEED |-> {ToString(seed)},
                   CUBLAS_WORKSPACE_CONFIG |-> {":4096:8"}]
    /\ UNCHANGED <<GLOBAL_SEED, GLOBAL_WORKER_ID>>
    /\ SeedReturns("setup_seed", seed)

\* set_seed(seed)
SetSeed(seed) ==
    /\ rng' = Seeded(seed)
    /\ UNCHANGED <<GLOBAL_SEED, GLOBAL_WORKER_ID, backend>>
    /\ SeedReturns("set_seed", seed)

\* Mutant of WorkerInitFn: every worker is seeded with the base seed alone
\* (the set_seed(const.random_seed) of line 69).
WorkerInitFnSameSeed(worker_id) ==
    /\ GLOBAL_WORKER_ID' = {worker_id}
    /\ rng' = Seeded(GLOBAL_SEED)
    /\ UNCHANGED <<GLOBAL_SEED, backend>>
    /\ SeedReturns("worker_init_fn", worker_id)

\* worker_init_fn(worker_id)
WorkerInitFn(worker_id) ==
    /\ GLOBAL_WORKER_ID' = {worker_id}
    /\ rng' = Seeded(GLOBAL_SEED + worker_id)
    /\ UNCHANGED <<GLOBAL_SEED, backend>>
    /\ SeedReturns("worker_init_fn", worker_id)

InitSeed ==
    /\ IdleSeed
    /\ fn = "none" /\ ret = None
    /\ IdleMetrics /\ IdlePad /\ IdleTime

CallSetupSeed == \E seed \in 0..MaxSeed : SetupSeed(seed)
CallSetSeed == \E seed \in 0..MaxSeed : SetSeed(seed)
CallWorkerInitFn == \E worker_id \in 0..MaxWorker : WorkerInitFn(worker_id)

NextSeed == CallSetupSeed \/ CallSetSeed \/ CallWorkerInitFn
SpecSeed == InitSeed /\ [][NextSeed]_vars

(***************************************************************************)
(* Properties of the ranking metrics.                                      *)
(***************************************************************************)
\* The descending-score order the metrics rank by.
DescOrder == Reversed(ArgSort(y_score, sort_kind))

IsFloat(v) == v.kind = "float"
FloatEq(v, n, d) == IsFloat(v) /\ v.num * d = n * v.den
FloatLeq(v, n, d) == IsFloat(v) /\ v.num * d <= n * v.den

AllLabels(v) == \A i \in 1..Len(y_true) : y_true[i] = v

\* C1: for k >= 0, hit_score returns 1 iff one of the first k indices of the
\* descending-score order (all of them when k exceeds the length) has label
\* exactly 1, and 0 otherwise; 0 for an all-zero ground truth.  The order is
\* a permutation of the indices with non-increasing scores.
C1_HitScoreIffTopKHasLabelOne ==
    (fn = "hit_score" /\ k >= 0) =>
        \A order \in {DescOrder} : \A n \in {Len(y_score)} :
            /\ {order[p] : p \in 1..n} = 1..n
            /\ \A p \in 1..(n - 1) : y_score[order[p]] >= y_score[order[p + 1]]
            /\ ret.val \in {0, 1}
            /\ ret.val = 1 <=>
                   \E p \in 1..Min(k, Len(y_true)) : y_true[order[p]] = 1
            /\ AllLabels(0) => ret.val = 0

\* C1's case: a cutoff inside the vector, a label 2 inside the top k and a
\* label 1 outside it, so the call returned 0.
C1_Witness ==
    /\ fn = "hit_score" /\ k >= 1 /\ k < Len(y_true)
    /\ \E order \in {DescOrder} : \E p \in 1..k : y_true[order[p]] = 2
    /\ \E i \in 1..Len(y_true) : y_true[i] = 1
    /\ ret.val = 0

\* The single relevant item of a binary ground truth, 0 when there is not
\* exactly one.
SingleRelevant ==
    IF /\ \A i \in 1..Len(y_true) : y_true[i] \in {0, 1}
       /\ Cardinality({i \in 1..Len(y_true) : y_true[i] = 1}) = 1
    THEN CHOOSE i \in 1..Len(y_true) : y_true[i] = 1
    ELSE 0

\* C2 as stated: with a single relevant item, mrr_score is 1.0 when that item
\* has the highest score and 1/n when it has the lowest score of the n items.
C2_Original ==
    (fn = "mrr_score" /\ SingleRelevant # 0) =>
        LET r == SingleRelevant
            n == Len(y_true)
        IN  /\ (\A j \in 1..n : y_score[r] >= y_score[j]) => FloatEq(ret, 1, 1)
            /\ (\A j \in 1..n : y_score[r] <= y_score[j]) => FloatEq(ret, 1, n)

\* C2 amended: with a single relevant item, mrr_score is 1.0 when that item's
\* score is strictly higher than every other score, and 1/n when it is
\* strictly lower than every other score.
C2_StrictExtremes ==
    (fn = "mrr_score" /\ SingleRelevant # 0) =>
        LET r == SingleRelevant
            n == Len(y_true)
        IN  /\ (\A j \in 1..n : j # r => y_score[r] > y_score[j])
                   => FloatEq(ret, 1, 1)
            /\ (\A j \in 1..n : j # r => y_score[r] < y_score[j])
                   => FloatEq(ret, 1, n)

\* C2's case: three items, the relevant one strictly lowest, and 1/3 returned.
C2_Witness ==
    /\ fn = "mrr_score" /\ SingleRelevant # 0 /\ Len(y_true) = 3
    /\ \A j \in 1..3 : j # SingleRelevant => y_score[SingleRelevant] < y_score[j]
    /\ FloatEq(ret, 1, 3)

\* C4: for k >= 1, dcg_score(y_true, y_score, k) <= dcg_score(y_true, y_true, k)
\* for every score vector; ndcg_score <= 1 when the ideal DCG is non-zero; and
\* ndcg_score(gt, gt, k) = 1.0 for a (non-empty) all-one gt.
C4_IdealDcgIsMaximum ==
    /\ (fn = "dcg_score" /\ k >= 1) =>
           ret.val <= DcgScore(y_true, y_true, k, sort_kind)
    /\ (fn = "ndcg_score" /\ k >= 1) =>
           /\ DcgScore(y_true, y_true, k, sort_kind) # 0 => FloatLeq(ret, 1, 1)
           /\ (Len(y_true) >= 1 /\ AllLabels(1) /\ y_score = y_true)
                  => FloatEq(ret, 1, 1)

\* C4's case: a ranking of graded labels strictly worse than the ideal one.
C4_Witness ==
    /\ fn = "ndcg_score" /\ k >= 1
    /\ \E i \in 1..Len(y_true) : y_true[i] = 2
    /\ IsFloat(ret) /\ 0 < ret.num /\ ret.num < ret.den

\* C5: dcg_score of the rescaled scores f(y_score), f strictly increasing,
\* equals dcg_score of the scores, for every k.
C5_DcgInvariantUnderRescaling ==
    fn = "dcg_score_rescaled" =>
        /\ \A a, b \in Scores : a < b => f[a] < f[b]
        /\ ret.val = DcgScore(y_true, y_score, k, sort_kind)

\* C5's case: tied and untied scores, all changed by the rescaling, and a
\* DCG that depends on the order.
C5_Witness ==
    /\ fn = "dcg_score_rescaled" /\ Len(y_score) = 3 /\ k = 2
    /\ y_score[1] = y_score[2] /\ y_score[2] < y_score[3]
    /\ \A i \in 1..3 : f[y_score[i]] # y_score[i]
    /\ y_true = <<2, 0, 1>>
    /\ ret.val > 0

\* The total relevance mrr_score divides by.
TotalRelevance == SumSeq(y_true)

\* C6: with no positive relevance (ideal DCG zero for ndcg_score, total
\* relevance zero for mrr_score) the call does not raise: it returns nan or
\* inf, for every score vector and every k.
C6_ZeroRelevanceReturnsNanOrInf ==
    /\ (fn = "ndcg_score" /\ DcgScore(y_true, y_true, k, sort_kind) = 0)
           => ret.kind \in {"nan", "inf"}
    /\ (fn = "mrr_score" /\ TotalRelevance = 0)
           => ret.kind \in {"nan", "inf"}

\* C6's case: a non-empty all-zero ground truth, and nan returned by a call
\* with a positive cutoff.
C6_Witness ==
    /\ fn = "ndcg_score" /\ k >= 1
    /\ Len(y_true) >= 2 /\ AllLabels(0)
    /\ ret.kind = "nan"

(***************************************************************************)
(* Properties of pad_and_stack.                                            *)
(***************************************************************************)
PadCalled == fn = "none" /\ fn' = "pad_and_stack"

\* The rows of an input array, a 1-D array counting as one row.
RowsOf(a) == IF a.ndim = 1 THEN <<a.data>> ELSE a.data

\* out is the stack of the rows of list, in order, each right-padded with
\* pad to the widest last dimension.
IsPaddedStack(list, pad, out) ==
    LET n == Len(list)
        width == MaxOf([i \in 1..n |-> LastDim(list[i])])
        nrows == [i \in 1..n |-> Len(RowsOf(list[i]))]
        offset == [i \in 1..n |-> SumSeq(SubSeq(nrows, 1, i - 1))]
    IN  /\ out.kind = "ndarray" /\ out.ndim = 2
        /\ out.shape = <<SumSeq(nrows), width>>
        /\ Len(out.data) = SumSeq(nrows)
        /\ \A i \in 1..n : \A r \in 1..nrows[i] :
               LET row == out.data[offset[i] + r]
                   orig == RowsOf(list[i])[r]
               IN  /\ Len(row) = width
                   /\ SubSeq(row, 1, Len(orig)) = orig
                   /\ \A j \in (Len(orig) + 1)..width : row[j] = pad

\* C3: for a non-empty list of 1-D or 2-D arrays, pad_and_stack returns a 2-D
\* array with the maximum last dimension as column count and the sum of the
\* row counts as row count, whose rows are the input rows in order, each
\* unchanged and followed only by pad_value.
C3_PadAndStackResult ==
    [][PadCalled => IsPaddedStack(arrays, pad_value, ret')]_vars

\* C3's case: pad_and_stack([[1,2],[3,4,5]], 0) has returned [[1,2,0],[3,4,5]].
C3_Witness ==
    /\ fn = "pad_and_stack" /\ pad_value = 0
    /\ Len(arrays) = 2 /\ arrays[1].base = 1 /\ arrays[2].base = 2
    /\ ret.kind = "ndarray"
    /\ ret.data = <<(<<1, 2, 0>>), (<<3, 4, 5>>)>>

\* C7 as stated: pad_and_stack raises a dimension mismatch when two inputs
\* (a 1-D input counting as one row) have different numbers of rows.
C7_Original ==
    (/\ fn = "pad_and_stack"
     /\ \E i, j \in 1..Len(arrays) : arrays[i].shape[1] # arrays[j].shape[1])
        => ret.kind = "raise"

\* C7 amended: pad_and_stack raises no dimension mismatch for a non-empty list
\* of 1-D or 2-D arrays, whatever their row counts: inputs with different
\* numbers of rows are stacked, and the result has the sum of their rows.
C7_NoRowMismatch ==
    fn = "pad_and_stack" =>
        /\ ret.kind = "ndarray"
        /\ ret.shape[1] = SumSeq([i \in 1..Len(arrays) |-> arrays[i].shape[1]])

\* C7's case: a one-row input and a two-row input of different widths.
C7_Witness ==
    /\ fn = "pad_and_stack" /\ Len(arrays) = 2
    /\ arrays[1].shape[1] = 1 /\ arrays[2].shape[1] = 2
    /\ arrays[1].shape[2] # arrays[2].shape[2]
    /\ ret.kind = "ndarray" /\ ret.shape[1] = 3

\* C10: pad_and_stack changes the caller's list only by replacing each 1-D
\* element with its one-row 2-D view: same length, every element 2-D, every
\* 2-D element the same unmodified object, no data value changed.
C10_ListOnlyPromoted ==
    [][PadCalled =>
        /\ Len(arrays') = Len(arrays)
        /\ \A i \in 1..Len(arrays) :
               /\ arrays'[i].ndim = 2
               /\ arrays[i].ndim = 2 => arrays'[i] = arrays[i]
               /\ arrays[i].ndim = 1 =>
                      /\ arrays'[i].base = arrays[i].id
                      /\ arrays'[i].shape = <<1, arrays[i].shape[1]>>
                      /\ arrays'[i].data = <<arrays[i].data>>]_vars

\* C10's case: after a call that had to pad a 2-D element, the list holds
\* that element unpadded beside the view of a 1-D element.
C10_Witness ==
    /\ fn = "pad_and_stack" /\ ret.kind = "ndarray"
    /\ \E i, j \in 1..Len(arrays) :
           /\ arrays[i].base # 0
           /\ arrays[j].base = 0 /\ arrays[j].id = j
           /\ arrays[j].shape[1] = 2
           /\ arrays[j].shape[2] < ret.shape[2]

(***************************************************************************)
(* Properties of format_time (durations in milliseconds, S in hundredths). *)
(***************************************************************************)
RenderedMs(v) ==
    (v.D * SecondsPerDay + v.H * SecondsPerHour + v.M * SecondsPerMinute) * 1000
        + v.S * 10

Abs(x) == IF x < 0 THEN -x ELSE x

\* C8 as stated: format_time(s) renders D, H, M, S with H < 24, M < 60,
\* 0 <= S < 60 and D*86400 + H*3600 + M*60 + S = s, for every s >= 0;
\* format_time(90061.5) is "1d 1h 1m 1.50s".
C8_Original ==
    fn = "format_time" =>
        /\ ret.D >= 0 /\ ret.H \in 0..23 /\ ret.M \in 0..59
        /\ 0 <= ret.S /\ ret.S < 6000
        /\ RenderedMs(ret) = seconds
        /\ seconds = 90061500 => ret.text = "1d 1h 1m 1.50s"

\* C8 amended: format_time(s) renders D, H, M, S with H < 24, M < 60 and S the
\* seconds left rounded to two decimals, so that 0 <= S <= 60 and
\* D*86400 + H*3600 + M*60 + S is within 0.005 of s; when s is a whole number
\* of hundredths of a second, S < 60 and the sum equals s;
\* format_time(90061.5) is "1d 1h 1m 1.50s".
C8_RoundedToHundredths ==
    fn = "format_time" =>
        /\ ret.D >= 0 /\ ret.H \in 0..23 /\ ret.M \in 0..59
        /\ 0 <= ret.S /\ ret.S <= 6000
        /\ Abs(RenderedMs(ret) - seconds) <= 5
        /\ seconds % 10 = 0 => (ret.S < 6000 /\ RenderedMs(ret) = seconds)
        /\ seconds = 90061500 => ret.text = "1d 1h 1m 1.50s"

\* C8's case: format_time(90061.5) has returned "1d 1h 1m 1.50s".
C8_Witness ==
    /\ fn = "format_time" /\ seconds = 90061500
    /\ ret.text = "1d 1h 1m 1.50s"
    /\ ret.D = 1 /\ ret.H = 1 /\ ret.M = 1 /\ ret.S = 150

(***************************************************************************)
(* Properties of the seeding helpers.                                      *)
(***************************************************************************)
\* C9: in every sequence of calls to setup_seed, set_seed and worker_init_fn,
\* GLOBAL_SEED keeps its initial value 1, GLOBAL_WORKER_ID (initially None)
\* is changed by worker_init_fn only, and right after worker_init_fn(w)
\* GLOBAL_WORKER_ID is w and the python, numpy and torch generators are
\* seeded with GLOBAL_SEED + w, whatever was seeded before.
C9_WorkerSeedIsBasePlusWorker ==
    /\ GLOBAL_SEED = 1 /\ GLOBAL_WORKER_ID = {}
    /\ [][/\ GLOBAL_SEED' = 1
          /\ GLOBAL_WORKER_ID' # GLOBAL_WORKER_ID => fn' = "worker_init_fn"
          /\ fn' = "worker_init_fn" =>
                 /\ GLOBAL_WORKER_ID' = arg'
                 /\ \E w \in 0..MaxWorker :
                        /\ arg' = {w}
                        /\ rng'.python = {GLOBAL_SEED' + w}
                        /\ rng'.numpy = {GLOBAL_SEED' + w}
                        /\ rng'.torch = {GLOBAL_SEED' + w}]_vars

\* C9's case: worker_init_fn(2) has returned in a process where
\* setup_seed(0) was called before.
C9_Witness ==
    /\ fn = "worker_init_fn" /\ arg = {2}
    /\ backend.PYTHONHASHSEED = {"0"}
    /\ GLOBAL_WORKER_ID = {2}
    /\ rng.python = {3} /\ rng.numpy = {3} /\ rng.torch = {3}

====
